---- MODULE Spec2Model ----
(***************************************************************************)
(* The VoiceInput React component                                          *)
(* (src/frontend/src/components/voiceinput.js) as a state machine.         *)
(*                                                                         *)
(* One step of the model is one task of the browser's event loop: a click  *)
(* handler, a SpeechRecognition event handler, a settled getUserMedia      *)
(* promise or an interval callback, run to completion together with the    *)
(* React render and the effect (lines 20-74) that the task's state updates *)
(* cause.  Every function of the component is a closure over the state of  *)
(* the render that created it; the model keeps, for every closure that     *)
(* outlives its render (the handlers of a recognition instance, the        *)
(* continuation of startRecording), the values it captured.  The buttons   *)
(* always carry the closures of the latest render (lines 189-265).         *)
(*                                                                         *)
(* The platform: a SpeechRecognition instance that was started delivers    *)
(* result and error events until its end event, also after stop() (it      *)
(* returns what it has captured); an error is followed by the end event.   *)
(* getUserMedia settles at any later time, or never.                       *)
(*                                                                         *)
(* The host is kept abstract while VoiceInput is explored (Spec): it may   *)
(* or may not pass onSend, and its own state stays as it is.  HostSpec     *)
(* puts the component into ChatComponent                                   *)
(* (src/frontend/src/components/ChatComponent.js), whose handlers run      *)
(* inside the task that calls them.                                        *)
(*                                                                         *)
(* Text is a sequence of tokens; the token " " is one blank.               *)
(***************************************************************************)
EXTENDS Integers, Sequences, FiniteSets, TLC

\* ------------------------------------------------------------------ bounds
MaxInst == 2            \* recognition instances that exist at once
MaxTranscriptLen == 2   \* tokens in the finalized transcript of a session
MaxBatch == 2           \* results in one recognition result event
MaxResultLen == 4       \* tokens in the transcript, result events alone
MaxTime == 1            \* cap on recordingTime
MaxPending == 1         \* getUserMedia requests in flight
NumBins == 2            \* frequency bins of the analyser (128 in the code)

\* ------------------------------------------------------------------- text
Blank == " "
Words == {"hello", "world", "wor"}
EmptyText == << >>

\* what one SpeechRecognitionResult may carry in [0].transcript
SegmentTexts == {<<w>> : w \in Words} \cup {EmptyText}

Results == [transcript : SegmentTexts, isFinal : BOOLEAN]
Batches == UNION {[1..n -> Results] : n \in 1..MaxBatch}

\* the result events drawn while whole sessions are explored: one result,
\* a word or nothing
SessionBatches ==
    {<<r>> : r \in [transcript : {<<"hello">>, EmptyText}, isFinal : BOOLEAN]}

ErrorKinds == {"no-speech", "network"}

\* Uint8Array(bufferLength), lines 88-89: one byte per frequency bin
ByteValues == {0, 1, 84, 85, 86, 127, 169, 170, 171, 254, 255}
FrequencyData == [1..NumBins -> ByteValues]
ZeroData == [k \in 1..NumBins |-> 0]

\* the buffer contents drawn while whole sessions are explored
SessionData == [1..NumBins -> {0, 255}]

\* dataArray.reduce((a, b) => a + b), line 95
RECURSIVE SumOf(_)
SumOf(data) == IF data = << >> THEN 0 ELSE Head(data) + SumOf(Tail(data))

RECURSIVE TrimStart(_)
TrimStart(s) ==
    IF s # EmptyText /\ Head(s) = Blank THEN TrimStart(Tail(s)) ELSE s

RECURSIVE TrimEnd(_)
TrimEnd(s) ==
    IF s # EmptyText /\ s[Len(s)] = Blank
    THEN TrimEnd(SubSeq(s, 1, Len(s) - 1))
    ELSE s

\* String.prototype.trim
Trim(s) == TrimEnd(TrimStart(s))

\* ------------------------------------------------------------------ state
VARIABLES
    supported,          \* 'webkitSpeechRecognition' in window
    hasOnSend,          \* the host passed the optional onSend prop
    isRecording, isPaused, transcript, interimTranscript, audioLevel,
    recordingTime,      \* the six useState cells, lines 6-11
    recognitionRef,     \* 0 = null, else the id of a recognition instance
    recs,               \* the recognition instances: platform status + closure
    timerRef,           \* "null", "active" or "cleared"
    streamRef,          \* "null", "live" or "stopped"
    audioContextRef,    \* "null", "running" or "closed"
    micRequests,        \* getUserMedia promises not yet settled (closures)
    dataArray,          \* the analyser buffer of the latest startAudioMonitoring
    orphanTimers,       \* some active interval timer is no longer in timerRef
    orphanStreams,      \* some live stream is no longer in streamRef
    orphanContexts,     \* some running context is no longer in audioContextRef
    showVoiceInput,     \* ChatComponent: the VoiceInput panel is rendered
    input,              \* ChatComponent: the text of the input box
    sendTimers,         \* ChatComponent: pending setTimeout of handleVoiceSend
    posted,             \* the message contents posted to /api/chat, in order
    lastOp,             \* history: the task that ran last
    lastBatch,          \* history: the result event the last task handled
    calls,              \* history: outward calls the last task made, in order
    transcriptCalls,    \* history: onTranscript invocations since start()
    heard               \* history: final segments since start() / clear()

vars == <<supported, hasOnSend, isRecording, isPaused, transcript,
          interimTranscript, audioLevel, recordingTime, recognitionRef, recs,
          timerRef, streamRef, audioContextRef, micRequests, dataArray,
          orphanTimers, orphanStreams, orphanContexts, showVoiceInput, input,
          sendTimers, posted, lastOp, lastBatch, calls, transcriptCalls, heard>>

\* the state of the host, which no function of VoiceInput writes
hostVars == <<showVoiceInput, input, sendTimers, posted>>

InstIds == 1..MaxInst

FreeInst == [status |-> "free", cRecording |-> FALSE, cPaused |-> FALSE,
             cTranscript |-> EmptyText]

Call(fn, arg) == [fn |-> fn, arg |-> arg]
NoArg == EmptyText

Min(a, b) == IF a < b THEN a ELSE b

\* ------------------------------------------------- recognition instances
\* SpeechRecognition.start(): an instance that is not started begins to
\* listen; on a started one the browser throws InvalidStateError.
CanStart(rs, i) == rs[i].status = "idle"

RecStart(rs, i) == [rs EXCEPT ![i].status = "listening"]

\* SpeechRecognition.stop(): a listening instance stops and will end; on any
\* other instance the call does nothing.
RecStop(rs, i) ==
    IF i # 0 /\ rs[i].status = "listening"
    THEN [rs EXCEPT ![i].status = "stopping"]
    ELSE rs

\* an instance that is not started and that no ref holds is garbage
Collect(rs, ref) ==
    [i \in InstIds |->
        IF rs[i].status = "idle" /\ i # ref THEN FreeInst ELSE rs[i]]

HasFree(rs) == \E i \in InstIds : rs[i].status = "free"
FirstFree(rs) == CHOOSE i \in InstIds :
    /\ rs[i].status = "free"
    /\ \A j \in InstIds : rs[j].status = "free" => i <= j

\* The effect of lines 20-74, deps [isRecording, isPaused]: when the render
\* that follows a task changed a dep, the previous effect's cleanup stops
\* recognitionRef.current and the effect body builds a new, not started
\* instance whose handlers close over the new render (r, p, t).
EffectResult(rs, ref, r, p, t) ==
    IF <<r, p>> = <<isRecording, isPaused>>
    THEN [recs |-> Collect(rs, ref), ref |-> ref]
    ELSE LET stopped == RecStop(rs, ref)
         IN  IF ~supported
             THEN [recs |-> stopped, ref |-> ref]
             ELSE LET freed == Collect(stopped, 0)
                      n == FirstFree(freed)
                  IN  [recs |-> [freed EXCEPT ![n] =
                                    [status |-> "idle", cRecording |-> r,
                                     cPaused |-> p, cTranscript |-> t]],
                       ref |-> n]

\* the render after the task can build its instance
EffectRoom(rs, ref, r, p) ==
    \/ <<r, p>> = <<isRecording, isPaused>>
    \/ ~supported
    \/ HasFree(Collect(RecStop(rs, ref), 0))

\* ------------------------------------------------------------------- Init
Init ==
    /\ supported \in BOOLEAN
    /\ hasOnSend \in BOOLEAN
    /\ isRecording = FALSE
    /\ isPaused = FALSE
    /\ transcript = EmptyText
    /\ interimTranscript = EmptyText
    /\ audioLevel = 0
    /\ recordingTime = 0
    /\ recognitionRef = IF supported THEN 1 ELSE 0
    /\ recs = [i \in InstIds |->
                 IF supported /\ i = 1
                 THEN [status |-> "idle", cRecording |-> FALSE,
                       cPaused |-> FALSE, cTranscript |-> EmptyText]
                 ELSE FreeInst]
    /\ timerRef = "null"
    /\ streamRef = "null"
    /\ audioContextRef = "null"
    /\ micRequests = << >>
    /\ dataArray = ZeroData
    /\ orphanTimers = FALSE
    /\ orphanStreams = FALSE
    /\ orphanContexts = FALSE
    /\ showVoiceInput = TRUE
    /\ input = EmptyText
    /\ sendTimers = << >>
    /\ posted = << >>
    /\ lastOp = "mount"
    /\ lastBatch = << >>
    /\ calls = IF supported THEN << >> ELSE <<Call("alert", NoArg)>>
    /\ transcriptCalls = 0
    /\ heard = << >>


\* ----------------------------------------------- recognition.onresult
\* lines 28-38: the loop over event.results from resultIndex on; `final`
RECURSIVE ResultFinal(_)
ResultFinal(batch) ==
    IF batch = << >> THEN EmptyText
    ELSE (IF Head(batch).isFinal
          THEN Head(batch).transcript \o <<Blank>>
          ELSE EmptyText) \o ResultFinal(Tail(batch))

\* lines 28-38: `interim`
RECURSIVE ResultInterim(_)
ResultInterim(batch) ==
    IF batch = << >> THEN EmptyText
    ELSE (IF Head(batch).isFinal
          THEN EmptyText
          ELSE Head(batch).transcript) \o ResultInterim(Tail(batch))

\* ResultState gone wrong: the interim text is appended to the old one
ResultStateAppendsInterim(t, interim, batch) ==
    IF ResultFinal(batch) # EmptyText
    THEN <<t \o ResultFinal(batch), EmptyText>>
    ELSE <<t, interim \o ResultInterim(batch)>>

\* lines 40-45: the new <<transcript, interimTranscript>>
ResultState(t, interim, batch) ==
    IF ResultFinal(batch) # EmptyText
    THEN <<t \o ResultFinal(batch), EmptyText>>
    ELSE <<t, ResultInterim(batch)>>

\* history only: the final segments of a batch, in order
FinalSegments(batch) ==
    LET F[k \in 0..Len(batch)] ==
            IF k = 0 THEN << >>
            ELSE IF batch[k].isFinal
                 THEN Append(F[k - 1], batch[k].transcript)
                 ELSE F[k - 1]
    IN  F[Len(batch)]

\* A started instance (listening, or stopping and returning what it has
\* captured) delivers a result event.
onresult(i, batch, maxLen) ==
    /\ recs[i].status \in {"listening", "stopping"}
    /\ LET new == ResultState(transcript, interimTranscript, batch)
       IN  /\ Len(new[1]) <= maxLen
           /\ transcript' = new[1]
           /\ interimTranscript' = new[2]
    /\ heard' = heard \o FinalSegments(batch)
    /\ lastOp' = "result"
    /\ lastBatch' = batch
    /\ calls' = << >>
    /\ UNCHANGED <<supported, hasOnSend, dataArray, isRecording, isPaused, audioLevel,
                   recordingTime, recognitionRef, recs, timerRef, streamRef,
                   audioContextRef, micRequests, orphanTimers, orphanStreams,
                   orphanContexts, transcriptCalls>>

\* ------------------------------------------------------- stopRecording
\* lines 167-173: the host callbacks, for the transcript t the closure holds
StopCallbacks(t) ==
    IF Trim(t) # EmptyText
    THEN <<Call("onTranscript", Trim(t))>>
         \o (IF hasOnSend THEN <<Call("onSend", Trim(t))>> ELSE << >>)
    ELSE << >>

\* lines 151-165: the calls that release what the refs hold
StopReleases ==
    (IF recognitionRef # 0 THEN <<Call("recognition.stop", NoArg)>> ELSE << >>)
    \o (IF timerRef # "null" THEN <<Call("clearInterval", NoArg)>> ELSE << >>)
    \o (IF streamRef # "null" THEN <<Call("track.stop", NoArg)>> ELSE << >>)
    \o (IF audioContextRef # "null"
        THEN <<Call("audioContext.close", NoArg)>> ELSE << >>)

NumberOf(fn, cs) == Cardinality({k \in 1..Len(cs) : cs[k].fn = fn})

\* stopRecording gone wrong: it leaves isPaused as it is
stopRecordingKeepsPaused(t, rs) ==
    /\ isRecording' = FALSE
    /\ isPaused' = isPaused
    /\ audioLevel' = 0
    /\ LET e == EffectResult(RecStop(rs, recognitionRef), recognitionRef,
                             FALSE, FALSE, transcript)
       IN  /\ recs' = e.recs
           /\ recognitionRef' = e.ref
    /\ timerRef' = IF timerRef = "null" THEN "null" ELSE "cleared"
    /\ streamRef' = IF streamRef = "null" THEN "null" ELSE "stopped"
    /\ audioContextRef' = IF audioContextRef = "null" THEN "null" ELSE "closed"
    /\ calls' = StopReleases \o StopCallbacks(t)
    /\ transcriptCalls' =
           transcriptCalls + NumberOf("onTranscript", StopCallbacks(t))
    /\ UNCHANGED <<supported, hasOnSend, dataArray, transcript, interimTranscript,
                   recordingTime, micRequests, orphanTimers, orphanStreams,
                   orphanContexts, heard>>

\* lines 146-174, run by a closure that holds transcript t, on the
\* instances rs (the caller may already have changed them).
stopRecording(t, rs) ==
    /\ isRecording' = FALSE
    /\ isPaused' = FALSE
    /\ audioLevel' = 0
    /\ LET e == EffectResult(RecStop(rs, recognitionRef), recognitionRef,
                             FALSE, FALSE, transcript)
       IN  /\ recs' = e.recs
           /\ recognitionRef' = e.ref
    /\ timerRef' = IF timerRef = "null" THEN "null" ELSE "cleared"
    /\ streamRef' = IF streamRef = "null" THEN "null" ELSE "stopped"
    /\ audioContextRef' = IF audioContextRef = "null" THEN "null" ELSE "closed"
    /\ calls' = StopReleases \o StopCallbacks(t)
    /\ transcriptCalls' =
           transcriptCalls + NumberOf("onTranscript", StopCallbacks(t))
    /\ UNCHANGED <<supported, hasOnSend, dataArray, transcript, interimTranscript,
                   recordingTime, micRequests, orphanTimers, orphanStreams,
                   orphanContexts, heard>>

\* the Stop & Send button, lines 261-264, shown while isRecording
StopButton ==
    /\ isRecording
    /\ EffectRoom(recs, recognitionRef, FALSE, FALSE)
    /\ stopRecording(transcript, recs)
    /\ lastOp' = "stop"
    /\ lastBatch' = << >>

\* onerror gone wrong: no-speech is not told apart, every error stops the
\* session
onerrorStopsOnNoSpeech(i, kind) ==
    /\ recs[i].status \in {"listening", "stopping"}
    /\ LET rs == [recs EXCEPT ![i].status = "ending"]
       IN  IF FALSE
           THEN /\ recs' = rs
                /\ calls' = << >>
                /\ UNCHANGED <<supported, hasOnSend, dataArray, isRecording, isPaused,
                               transcript, interimTranscript, audioLevel,
                               recordingTime, recognitionRef, timerRef,
                               streamRef, audioContextRef, micRequests,
                               orphanTimers, orphanStreams, orphanContexts,
                               transcriptCalls, heard>>
           ELSE /\ EffectRoom(rs, recognitionRef, FALSE, FALSE)
                /\ stopRecording(recs[i].cTranscript, rs)
    /\ lastOp' = IF kind = "no-speech" THEN "error-no-speech" ELSE "error"
    /\ lastBatch' = << >>

\* ------------------------------------------------ recognition.onerror
\* lines 48-55.  The platform reports an error on a started instance and
\* then ends it; stopRecording is the one of the render that built the
\* instance, so it holds that render's transcript.
onerror(i, kind) ==
    /\ recs[i].status \in {"listening", "stopping"}
    /\ LET rs == [recs EXCEPT ![i].status = "ending"]
       IN  IF kind = "no-speech"
           THEN /\ recs' = rs
                /\ calls' = << >>
                /\ UNCHANGED <<supported, hasOnSend, dataArray, isRecording, isPaused,
                               transcript, interimTranscript, audioLevel,
                               recordingTime, recognitionRef, timerRef,
                               streamRef, audioContextRef, micRequests,
                               orphanTimers, orphanStreams, orphanContexts,
                               transcriptCalls, heard>>
           ELSE /\ EffectRoom(rs, recognitionRef, FALSE, FALSE)
                /\ stopRecording(recs[i].cTranscript, rs)
    /\ lastOp' = IF kind = "no-speech" THEN "error-no-speech" ELSE "error"
    /\ lastBatch' = << >>

\* -------------------------------------------------- recognition.onend
\* onendRestarts gone wrong: the pause flag is not looked at
onendRestartsWhilePaused(rec) == rec.cRecording

\* line 58, in the closure of the instance
onendRestarts(rec) == rec.cRecording /\ ~rec.cPaused

\* lines 57-61: the platform ends a started instance (after stop(), after
\* an error, or on its own).
onend(i) ==
    /\ recs[i].status \in {"listening", "stopping", "ending"}
    /\ recs' = Collect([recs EXCEPT ![i].status =
                          IF onendRestarts(recs[i]) THEN "listening"
                          ELSE "idle"], recognitionRef)
    /\ calls' = IF onendRestarts(recs[i])
                THEN <<Call("recognition.start", NoArg)>> ELSE << >>
    /\ lastOp' = "end"
    /\ lastBatch' = << >>
    /\ UNCHANGED <<supported, hasOnSend, dataArray, isRecording, isPaused, transcript,
                   interimTranscript, audioLevel, recordingTime,
                   recognitionRef, timerRef, streamRef, audioContextRef,
                   micRequests, orphanTimers, orphanStreams, orphanContexts,
                   transcriptCalls, heard>>


\* startRecording gone wrong: without the check of line 109 the state is set
\* before recognitionRef.current.start() throws on null
startRecordingUnchecked ==
    /\ ~isRecording
    /\ lastOp' = "start"
    /\ lastBatch' = << >>
    /\ IF recognitionRef = 0
       THEN /\ calls' = <<Call("alert", NoArg)>>
            /\ isRecording' = TRUE
            /\ isPaused' = FALSE
            /\ transcript' = EmptyText
            /\ interimTranscript' = EmptyText
            /\ recordingTime' = 0
            /\ UNCHANGED <<supported, hasOnSend, dataArray, audioLevel,
                           recognitionRef, recs, timerRef,
                           streamRef, audioContextRef, micRequests,
                           orphanTimers, orphanStreams, orphanContexts,
                           transcriptCalls, heard>>
       ELSE /\ Len(micRequests) < MaxPending
            /\ CanStart(recs, recognitionRef)
            /\ EffectRoom(RecStart(recs, recognitionRef), recognitionRef,
                          TRUE, FALSE)
            /\ isRecording' = TRUE
            /\ isPaused' = FALSE
            /\ transcript' = EmptyText
            /\ interimTranscript' = EmptyText
            /\ recordingTime' = 0
            /\ LET e == EffectResult(RecStart(recs, recognitionRef),
                                     recognitionRef, TRUE, FALSE, EmptyText)
               IN  /\ recs' = e.recs
                   /\ recognitionRef' = e.ref
            /\ micRequests' = Append(micRequests,
                   [isRecording |-> isRecording, isPaused |-> isPaused])
            /\ calls' = <<Call("recognition.start", NoArg),
                          Call("getUserMedia", NoArg)>>
            /\ transcriptCalls' = 0
            /\ heard' = << >>
            /\ UNCHANGED <<supported, hasOnSend, dataArray, audioLevel, timerRef,
                           streamRef, audioContextRef, orphanTimers,
                           orphanStreams, orphanContexts>>

\* startRecording gone wrong: the transcript of the earlier session is kept
startRecordingKeepsText ==
    /\ ~isRecording
    /\ lastOp' = "start"
    /\ lastBatch' = << >>
    /\ IF recognitionRef = 0
       THEN /\ calls' = <<Call("alert", NoArg)>>
            /\ UNCHANGED <<supported, hasOnSend, dataArray, isRecording, isPaused,
                           transcript, interimTranscript, audioLevel,
                           recordingTime, recognitionRef, recs, timerRef,
                           streamRef, audioContextRef, micRequests,
                           orphanTimers, orphanStreams, orphanContexts,
                           transcriptCalls, heard>>
       ELSE /\ Len(micRequests) < MaxPending
            /\ CanStart(recs, recognitionRef)
            /\ EffectRoom(RecStart(recs, recognitionRef), recognitionRef,
                          TRUE, FALSE)
            /\ isRecording' = TRUE
            /\ isPaused' = FALSE
            /\ transcript' = transcript
            /\ interimTranscript' = EmptyText
            /\ recordingTime' = 0
            /\ LET e == EffectResult(RecStart(recs, recognitionRef),
                                     recognitionRef, TRUE, FALSE, transcript)
               IN  /\ recs' = e.recs
                   /\ recognitionRef' = e.ref
            /\ micRequests' = Append(micRequests,
                   [isRecording |-> isRecording, isPaused |-> isPaused])
            /\ calls' = <<Call("recognition.start", NoArg),
                          Call("getUserMedia", NoArg)>>
            /\ transcriptCalls' = 0
            /\ heard' = << >>
            /\ UNCHANGED <<supported, hasOnSend, dataArray, audioLevel, timerRef,
                           streamRef, audioContextRef, orphanTimers,
                           orphanStreams, orphanContexts>>

\* ------------------------------------------------------ startRecording
\* The Start button, lines 190-193, shown while not isRecording; lines
\* 108-124 run up to the await.  The continuation keeps the isRecording and
\* isPaused of the render the button belonged to.
startRecording ==
    /\ ~isRecording
    /\ lastOp' = "start"
    /\ lastBatch' = << >>
    /\ IF recognitionRef = 0
       THEN /\ calls' = <<Call("alert", NoArg)>>
            /\ UNCHANGED <<supported, hasOnSend, dataArray, isRecording, isPaused,
                           transcript, interimTranscript, audioLevel,
                           recordingTime, recognitionRef, recs, timerRef,
                           streamRef, audioContextRef, micRequests,
                           orphanTimers, orphanStreams, orphanContexts,
                           transcriptCalls, heard>>
       ELSE /\ Len(micRequests) < MaxPending
            /\ CanStart(recs, recognitionRef)
            /\ EffectRoom(RecStart(recs, recognitionRef), recognitionRef,
                          TRUE, FALSE)
            /\ isRecording' = TRUE
            /\ isPaused' = FALSE
            /\ transcript' = EmptyText
            /\ interimTranscript' = EmptyText
            /\ recordingTime' = 0
            /\ LET e == EffectResult(RecStart(recs, recognitionRef),
                                     recognitionRef, TRUE, FALSE, EmptyText)
               IN  /\ recs' = e.recs
                   /\ recognitionRef' = e.ref
            /\ micRequests' = Append(micRequests,
                   [isRecording |-> isRecording, isPaused |-> isPaused])
            /\ calls' = <<Call("recognition.start", NoArg),
                          Call("getUserMedia", NoArg)>>
            /\ transcriptCalls' = 0
            /\ heard' = << >>
            /\ UNCHANGED <<supported, hasOnSend, dataArray, audioLevel, timerRef,
                           streamRef, audioContextRef, orphanTimers,
                           orphanStreams, orphanContexts>>

\* ------------------------------------------------- startAudioMonitoring
\* updateLevelRuns gone wrong: the state check of line 92 is missing
updateLevelRunsUnchecked(c) == TRUE

\* line 92, in the closure c of startAudioMonitoring
updateLevelRuns(c) == ~(~c.isRecording \/ c.isPaused)

\* one unit of audioLevel in the model: audioLevel is kept as a multiple of
\* 1 / (255 * bufferLength), so that the mean and the quotient by 255 are
\* exact (the doubles of the code give 100 exactly from a mean of 170 on)
LevelUnit(data) == 255 * Len(data)

\* AudioLevelOf gone wrong: the gain is applied without Math.min
AudioLevelUnclamped(data) == SumOf(data) * 150

\* lines 95-96: Math.min(100, (average / 255) * 150), average = sum / length
AudioLevelOf(data) == Min(100 * LevelUnit(data), SumOf(data) * 150)

\* lines 126-129: setInterval, its id stored over the old one; a timer that
\* was still active then runs on with no ref to clear it by
setTimer ==
    /\ orphanTimers' = (orphanTimers \/ timerRef = "active")
    /\ timerRef' = "active"

\* getUserMedia resolves: lines 80-101, then lines 126-129.  updateLevel
\* asks for another animation frame only after it has passed line 92; the
\* frame's callback (updateLevel, below) is no action of Spec because there
\* no frame is ever requested (NoFrameRequested).
getUserMediaResolved(k, data) ==
    /\ k \in 1..Len(micRequests)
    /\ micRequests' = SubSeq(micRequests, 1, k - 1)
                      \o SubSeq(micRequests, k + 1, Len(micRequests))
    /\ orphanStreams' = (orphanStreams \/ streamRef = "live")
    /\ streamRef' = "live"
    /\ orphanContexts' = (orphanContexts \/ audioContextRef = "running")
    /\ audioContextRef' = "running"
    /\ dataArray' = IF updateLevelRuns(micRequests[k]) THEN data ELSE ZeroData
    /\ audioLevel' = IF updateLevelRuns(micRequests[k])
                     THEN AudioLevelOf(data) ELSE audioLevel
    /\ setTimer
    /\ calls' = (IF updateLevelRuns(micRequests[k])
                 THEN <<Call("requestAnimationFrame", NoArg)>> ELSE << >>)
                \o <<Call("setInterval", NoArg)>>
    /\ lastOp' = "mic-granted"
    /\ lastBatch' = << >>
    /\ UNCHANGED <<supported, hasOnSend, isRecording, isPaused, transcript,
                   interimTranscript, recordingTime, recognitionRef, recs,
                   transcriptCalls, heard>>

\* getUserMediaRejected gone wrong: startRecording gives up after the failure
\* and never reaches setInterval
getUserMediaRejectedNoTimer(k) ==
    /\ k \in 1..Len(micRequests)
    /\ micRequests' = SubSeq(micRequests, 1, k - 1)
                      \o SubSeq(micRequests, k + 1, Len(micRequests))
    /\ UNCHANGED <<timerRef, orphanTimers>>
    /\ calls' = <<Call("alert", NoArg)>>
    /\ lastOp' = "mic-denied"
    /\ lastBatch' = << >>
    /\ UNCHANGED <<supported, hasOnSend, dataArray, isRecording, isPaused, transcript,
                   interimTranscript, audioLevel, recordingTime,
                   recognitionRef, recs, streamRef, audioContextRef,
                   orphanStreams, orphanContexts, transcriptCalls, heard>>

\* getUserMedia rejects: lines 102-105, then lines 126-129
getUserMediaRejected(k) ==
    /\ k \in 1..Len(micRequests)
    /\ micRequests' = SubSeq(micRequests, 1, k - 1)
                      \o SubSeq(micRequests, k + 1, Len(micRequests))
    /\ setTimer
    /\ calls' = <<Call("alert", NoArg), Call("setInterval", NoArg)>>
    /\ lastOp' = "mic-denied"
    /\ lastBatch' = << >>
    /\ UNCHANGED <<supported, hasOnSend, dataArray, isRecording, isPaused, transcript,
                   interimTranscript, audioLevel, recordingTime,
                   recognitionRef, recs, streamRef, audioContextRef,
                   orphanStreams, orphanContexts, transcriptCalls, heard>>

\* lines 127-129: an interval timer that was not cleared fires
timerTick ==
    /\ timerRef = "active" \/ orphanTimers
    /\ recordingTime < MaxTime
    /\ recordingTime' = recordingTime + 1
    /\ lastOp' = "tick"
    /\ lastBatch' = << >>
    /\ calls' = << >>
    /\ UNCHANGED <<supported, hasOnSend, dataArray, isRecording, isPaused, transcript,
                   interimTranscript, audioLevel, recognitionRef, recs,
                   timerRef, streamRef, audioContextRef, micRequests,
                   orphanTimers, orphanStreams, orphanContexts,
                   transcriptCalls, heard>>

\* pauseRecording gone wrong: it clears the interval as stopRecording does
pauseRecordingHaltsTimer ==
    /\ isRecording /\ ~isPaused
    /\ EffectRoom(RecStop(recs, recognitionRef), recognitionRef, TRUE, TRUE)
    /\ isPaused' = TRUE
    /\ timerRef' = IF timerRef = "null" THEN "null" ELSE "cleared"
    /\ LET e == EffectResult(RecStop(recs, recognitionRef), recognitionRef,
                             TRUE, TRUE, transcript)
       IN  /\ recs' = e.recs
           /\ recognitionRef' = e.ref
    /\ calls' = <<Call("recognition.stop", NoArg)>>
    /\ lastOp' = "pause"
    /\ lastBatch' = << >>
    /\ UNCHANGED <<supported, hasOnSend, dataArray, isRecording, transcript,
                   interimTranscript, audioLevel, recordingTime,
                   streamRef, audioContextRef, micRequests, orphanTimers,
                   orphanStreams, orphanContexts, transcriptCalls, heard>>

\* ------------------------------------------------ pause, resume, clear
\* the Pause button, lines 245-248; lines 132-137
pauseRecording ==
    /\ isRecording /\ ~isPaused
    /\ EffectRoom(RecStop(recs, recognitionRef), recognitionRef, TRUE, TRUE)
    /\ isPaused' = TRUE
    /\ LET e == EffectResult(RecStop(recs, recognitionRef), recognitionRef,
                             TRUE, TRUE, transcript)
       IN  /\ recs' = e.recs
           /\ recognitionRef' = e.ref
    /\ calls' = <<Call("recognition.stop", NoArg)>>
    /\ lastOp' = "pause"
    /\ lastBatch' = << >>
    /\ UNCHANGED <<supported, hasOnSend, dataArray, isRecording, transcript,
                   interimTranscript, audioLevel, recordingTime, timerRef,
                   streamRef, audioContextRef, micRequests, orphanTimers,
                   orphanStreams, orphanContexts, transcriptCalls, heard>>

\* resumeRecording gone wrong: it resets the session fields as startRecording does
resumeRecordingResets ==
    /\ isRecording /\ isPaused
    /\ CanStart(recs, recognitionRef)
    /\ EffectRoom(RecStart(recs, recognitionRef), recognitionRef, TRUE, FALSE)
    /\ isPaused' = FALSE
    /\ transcript' = EmptyText
    /\ recordingTime' = 0
    /\ LET e == EffectResult(RecStart(recs, recognitionRef), recognitionRef,
                             TRUE, FALSE, EmptyText)
       IN  /\ recs' = e.recs
           /\ recognitionRef' = e.ref
    /\ calls' = <<Call("recognition.start", NoArg)>>
    /\ lastOp' = "resume"
    /\ lastBatch' = << >>
    /\ UNCHANGED <<supported, hasOnSend, dataArray, isRecording,
                   interimTranscript, audioLevel, timerRef,
                   streamRef, audioContextRef, micRequests, orphanTimers,
                   orphanStreams, orphanContexts, transcriptCalls, heard>>

\* the Resume button, lines 250-253; lines 139-144
resumeRecording ==
    /\ isRecording /\ isPaused
    /\ CanStart(recs, recognitionRef)
    /\ EffectRoom(RecStart(recs, recognitionRef), recognitionRef, TRUE, FALSE)
    /\ isPaused' = FALSE
    /\ LET e == EffectResult(RecStart(recs, recognitionRef), recognitionRef,
                             TRUE, FALSE, transcript)
       IN  /\ recs' = e.recs
           /\ recognitionRef' = e.ref
    /\ calls' = <<Call("recognition.start", NoArg)>>
    /\ lastOp' = "resume"
    /\ lastBatch' = << >>
    /\ UNCHANGED <<supported, hasOnSend, dataArray, isRecording, transcript,
                   interimTranscript, audioLevel, recordingTime, timerRef,
                   streamRef, audioContextRef, micRequests, orphanTimers,
                   orphanStreams, orphanContexts, transcriptCalls, heard>>

\* clearTranscript gone wrong: it also resets the elapsed time
clearTranscriptResetsTime ==
    /\ isRecording
    /\ transcript' = EmptyText
    /\ interimTranscript' = EmptyText
    /\ recordingTime' = 0
    /\ heard' = << >>
    /\ calls' = << >>
    /\ lastOp' = "clear"
    /\ lastBatch' = << >>
    /\ UNCHANGED <<supported, hasOnSend, dataArray, isRecording, isPaused, audioLevel,
                   recognitionRef, recs, timerRef, streamRef,
                   audioContextRef, micRequests, orphanTimers, orphanStreams,
                   orphanContexts, transcriptCalls>>

\* the Clear button, lines 256-259; lines 182-185
clearTranscript ==
    /\ isRecording
    /\ transcript' = EmptyText
    /\ interimTranscript' = EmptyText
    /\ heard' = << >>
    /\ calls' = << >>
    /\ lastOp' = "clear"
    /\ lastBatch' = << >>
    /\ UNCHANGED <<supported, hasOnSend, dataArray, isRecording, isPaused, audioLevel,
                   recordingTime, recognitionRef, recs, timerRef, streamRef,
                   audioContextRef, micRequests, orphanTimers, orphanStreams,
                   orphanContexts, transcriptCalls>>

\* ------------------------------------------------------------------- Next
Next ==
    \/ startRecording /\ UNCHANGED hostVars
    \/ pauseRecording /\ UNCHANGED hostVars
    \/ resumeRecording /\ UNCHANGED hostVars
    \/ StopButton /\ UNCHANGED hostVars
    \/ clearTranscript /\ UNCHANGED hostVars
    \/ \E i \in InstIds, batch \in SessionBatches :
           onresult(i, batch, MaxTranscriptLen) /\ UNCHANGED hostVars
    \/ \E i \in InstIds, kind \in ErrorKinds :
           onerror(i, kind) /\ UNCHANGED hostVars
    \/ \E i \in InstIds : onend(i) /\ UNCHANGED hostVars
    \/ \E k \in 1..MaxPending, data \in SessionData :
           getUserMediaResolved(k, data) /\ UNCHANGED hostVars
    \/ \E k \in 1..MaxPending : getUserMediaRejected(k) /\ UNCHANGED hostVars
    \/ timerTick /\ UNCHANGED hostVars

Spec == Init /\ [][Next]_vars


\* ---------------------------------------------- result events alone
\* The state startRecording leaves on a platform with speech recognition:
\* instance 1 was started and then stopped by the effect's cleanup, instance
\* 2 is the new recognitionRef.current.  From there only result events of
\* instance 1 are explored, over every batch of up to MaxBatch results.
ResultInit ==
    /\ supported = TRUE
    /\ hasOnSend \in BOOLEAN
    /\ isRecording = TRUE
    /\ isPaused = FALSE
    /\ transcript = EmptyText
    /\ interimTranscript = EmptyText
    /\ audioLevel = 0
    /\ recordingTime = 0
    /\ recognitionRef = 2
    /\ recs = [i \in InstIds |->
                 IF i = 1
                 THEN [status |-> "stopping", cRecording |-> FALSE,
                       cPaused |-> FALSE, cTranscript |-> EmptyText]
                 ELSE IF i = 2
                 THEN [status |-> "idle", cRecording |-> TRUE,
                       cPaused |-> FALSE, cTranscript |-> EmptyText]
                 ELSE FreeInst]
    /\ timerRef = "null"
    /\ streamRef = "null"
    /\ audioContextRef = "null"
    /\ micRequests = <<[isRecording |-> FALSE, isPaused |-> FALSE]>>
    /\ dataArray = ZeroData
    /\ orphanTimers = FALSE
    /\ orphanStreams = FALSE
    /\ orphanContexts = FALSE
    /\ showVoiceInput = TRUE
    /\ input = EmptyText
    /\ sendTimers = << >>
    /\ posted = << >>
    /\ lastOp = "start"
    /\ lastBatch = << >>
    /\ calls = <<Call("recognition.start", NoArg),
                 Call("getUserMedia", NoArg)>>
    /\ transcriptCalls = 0
    /\ heard = << >>

ResultNext ==
    \E batch \in Batches :
        onresult(1, batch, MaxResultLen) /\ UNCHANGED hostVars

ResultSpec == ResultInit /\ [][ResultNext]_vars

\* ------------------------------------------------------------ updateLevel
\* lines 91-99 as the callback of an animation frame, in the closure c: past
\* line 92 the analyser fills the buffer (data), the level is computed from
\* it and the next frame is requested
updateLevel(c, data) ==
    /\ updateLevelRuns(c)
    /\ dataArray' = data
    /\ audioLevel' = AudioLevelOf(data)
    /\ calls' = <<Call("requestAnimationFrame", NoArg)>>
    /\ lastOp' = "frame"
    /\ lastBatch' = << >>
    /\ UNCHANGED <<supported, hasOnSend, isRecording, isPaused, transcript,
                   interimTranscript, recordingTime, recognitionRef, recs,
                   timerRef, streamRef, audioContextRef, micRequests,
                   orphanTimers, orphanStreams, orphanContexts,
                   transcriptCalls, heard>>

\* The computation of lines 93-98 on its own: a session with the microphone
\* acquired, and sampling ticks of a closure that passes line 92, over
\* every content of the buffer.
LevelInit ==
    /\ supported = TRUE
    /\ hasOnSend \in BOOLEAN
    /\ isRecording = TRUE
    /\ isPaused = FALSE
    /\ transcript = EmptyText
    /\ interimTranscript = EmptyText
    /\ audioLevel = 0
    /\ recordingTime = 0
    /\ recognitionRef = 2
    /\ recs = [i \in InstIds |->
                 IF i = 1
                 THEN [status |-> "stopping", cRecording |-> FALSE,
                       cPaused |-> FALSE, cTranscript |-> EmptyText]
                 ELSE IF i = 2
                 THEN [status |-> "idle", cRecording |-> TRUE,
                       cPaused |-> FALSE, cTranscript |-> EmptyText]
                 ELSE FreeInst]
    /\ timerRef = "active"
    /\ streamRef = "live"
    /\ audioContextRef = "running"
    /\ micRequests = << >>
    /\ dataArray = ZeroData
    /\ orphanTimers = FALSE
    /\ orphanStreams = FALSE
    /\ orphanContexts = FALSE
    /\ showVoiceInput = TRUE
    /\ input = EmptyText
    /\ sendTimers = << >>
    /\ posted = << >>
    /\ lastOp = "mic-granted"
    /\ lastBatch = << >>
    /\ calls = <<Call("setInterval", NoArg)>>
    /\ transcriptCalls = 0
    /\ heard = << >>

LevelNext ==
    \E data \in FrequencyData :
        /\ updateLevel([isRecording |-> TRUE, isPaused |-> FALSE], data)
        /\ UNCHANGED hostVars

LevelSpec == LevelInit /\ [][LevelNext]_vars

\* ---------------------------------------------------------- ChatComponent
\* what the user may have typed into the input box
InputTexts == {EmptyText, <<"world">>}

\* ChatComponent.js line 225: onChange of the textarea
handleInputChange(text) ==
    /\ input' = text
    /\ lastOp' = "type"
    /\ lastBatch' = << >>
    /\ calls' = << >>
    /\ UNCHANGED <<supported, hasOnSend, dataArray, isRecording, isPaused,
                   transcript, interimTranscript, audioLevel, recordingTime,
                   recognitionRef, recs, timerRef, streamRef, audioContextRef,
                   micRequests, orphanTimers, orphanStreams, orphanContexts,
                   showVoiceInput, sendTimers, posted, transcriptCalls, heard>>

\* the onTranscript / onSend calls among cs, in order
HostCalls(cs) == SelectSeq(cs, LAMBDA c : c.fn \in {"onTranscript", "onSend"})

\* ChatComponent.js lines 137-144, the timeouts set by the onSend calls
\* among cs: handleSendMessage in the callback is the function of the render
\* that created handleVoiceSend, so it reads that render's input
\* (closureInput); `sent` records the transcript handed over
handleVoiceSend(cs, closureInput) ==
    [k \in 1..NumberOf("onSend", cs) |->
        [input |-> closureInput,
         sent |-> SelectSeq(cs, LAMBDA x : x.fn = "onSend")[k].arg]]

\* Stop & Send inside ChatComponent: stopRecording calls handleVoiceTranscript
\* (lines 132-135) and handleVoiceSend (lines 137-144) of the latest render.
\* Both set the input to the transcript and hide the panel; the cleanup of
\* the removed VoiceInput stops recognitionRef.current, which is never a
\* started instance (CurrentIsIdle).
hostStop ==
    /\ showVoiceInput
    /\ StopButton
    /\ LET cs == HostCalls(calls')
       IN  /\ input' = IF cs = << >> THEN input ELSE cs[Len(cs)].arg
           /\ showVoiceInput' = (cs = << >>)
           /\ sendTimers' = sendTimers \o handleVoiceSend(cs, input)
    /\ posted' = posted

\* ChatComponent.js lines 65-79, called by the timeout of line 141 with the
\* input of its closure: nothing happens for a blank input, else the input
\* is posted and the box is emptied
handleSendMessage ==
    /\ sendTimers # << >>
    /\ sendTimers' = Tail(sendTimers)
    /\ IF Trim(Head(sendTimers).input) = EmptyText
       THEN UNCHANGED <<input, posted>>
       ELSE /\ posted' = Append(posted, Head(sendTimers).input)
            /\ input' = EmptyText
    /\ lastOp' = "send-timeout"
    /\ lastBatch' = << >>
    /\ calls' = IF Trim(Head(sendTimers).input) = EmptyText
                THEN << >> ELSE <<Call("fetch", Head(sendTimers).input)>>
    /\ UNCHANGED <<supported, hasOnSend, dataArray, isRecording, isPaused,
                   transcript, interimTranscript, audioLevel, recordingTime,
                   recognitionRef, recs, timerRef, streamRef, audioContextRef,
                   micRequests, orphanTimers, orphanStreams, orphanContexts,
                   showVoiceInput, transcriptCalls, heard>>

\* ChatComponent.js lines 216-222 while the panel is shown: the mic button
\* hides it, VoiceInput is removed and the cleanup of its effect (lines
\* 69-73) stops recognitionRef.current; nothing else of the component runs
hideVoiceInput ==
    /\ showVoiceInput
    /\ showVoiceInput' = FALSE
    /\ recs' = RecStop(recs, recognitionRef)
    /\ lastOp' = "hide"
    /\ lastBatch' = << >>
    /\ calls' = IF recognitionRef # 0
                THEN <<Call("recognition.stop", NoArg)>> ELSE << >>
    /\ UNCHANGED <<supported, hasOnSend, dataArray, isRecording, isPaused,
                   transcript, interimTranscript, audioLevel, recordingTime,
                   recognitionRef, timerRef, streamRef, audioContextRef,
                   micRequests, orphanTimers, orphanStreams, orphanContexts,
                   input, sendTimers, posted, transcriptCalls, heard>>

\* VoiceInput as ChatComponent renders it (lines 205-212): both callbacks
\* are passed
HostInit == Init /\ hasOnSend

\* Plain sessions inside ChatComponent: the user types, starts, speaks,
\* answers the permission prompt, stops or hides the panel.  The tasks of
\* VoiceInput run while it is rendered; a getUserMedia promise settles and
\* the timer ticks whether it is or not, but a tick of a removed component
\* sets no state.
HostNext ==
    \/ \E text \in InputTexts : handleInputChange(text)
    \/ showVoiceInput /\ startRecording /\ UNCHANGED hostVars
    \/ \E i \in InstIds, batch \in SessionBatches :
           /\ showVoiceInput
           /\ onresult(i, batch, MaxTranscriptLen)
           /\ UNCHANGED hostVars
    \/ \E k \in 1..MaxPending, data \in SessionData :
           getUserMediaResolved(k, data) /\ UNCHANGED hostVars
    \/ showVoiceInput /\ timerTick /\ UNCHANGED hostVars
    \/ hostStop
    \/ handleSendMessage
    \/ hideVoiceInput

HostSpec == HostInit /\ [][HostNext]_vars

\* ================================================================ claims
StopRan(op) == op \in {"stop", "error"}

Recording == isRecording /\ ~isPaused
Paused == isRecording /\ isPaused
Stopped == ~isRecording

Args(fn, cs) == {cs[k].arg : k \in {j \in 1..Len(cs) : cs[j].fn = fn}}

\* the final segments heard, each followed by one blank, in arrival order
RECURSIVE Joined(_)
Joined(segs) ==
    IF segs = << >> THEN EmptyText
    ELSE Head(segs) \o <<Blank>> \o Joined(Tail(segs))

\* C1: onTranscript is invoked at most once between one start() and the
\* next, and only by a task that runs stopRecording.
C1_OncePerSession ==
    /\ transcriptCalls <= 1
    /\ NumberOf("onTranscript", calls) > 0 => StopRan(lastOp)

\* C2: stopRecording on a session that is already stopped does not stop
\* the tracks or close the audio context a second time and invokes neither
\* onTranscript nor onSend.
C2_StopIdempotent ==
    [][(Stopped /\ StopRan(lastOp'))
         => /\ streamRef = "stopped" => NumberOf("track.stop", calls') = 0
            /\ audioContextRef = "closed"
                 => NumberOf("audioContext.close", calls') = 0
            /\ NumberOf("onTranscript", calls') = 0
            /\ NumberOf("onSend", calls') = 0]_vars

\* C3: when the trimmed transcript is empty as stopRecording runs, neither
\* onTranscript nor onSend is invoked.
C3_EmptyNoCallback ==
    [][(StopRan(lastOp') /\ Trim(transcript) = EmptyText)
         => /\ NumberOf("onTranscript", calls') = 0
            /\ NumberOf("onSend", calls') = 0]_vars

\* onSend directly after onTranscript, with the same text, once
SendFollowsTranscript(cs) ==
    /\ NumberOf("onSend", cs) = 1
    /\ \E k \in 1..(Len(cs) - 1) :
          /\ cs[k].fn = "onTranscript"
          /\ cs[k + 1].fn = "onSend"
          /\ cs[k + 1].arg = cs[k].arg

\* C4: when stopRecording runs with a non-empty trimmed transcript and the
\* host supplied onSend, onSend is invoked once, directly after
\* onTranscript and with the same text; onSend is never invoked without a
\* preceding onTranscript in the same stopRecording.
C4_SendAfterTranscript ==
    [][/\ (StopRan(lastOp') /\ Trim(transcript) # EmptyText /\ hasOnSend)
            => SendFollowsTranscript(calls')
       /\ NumberOf("onSend", calls') > 0 => SendFollowsTranscript(calls')]_vars

\* C5: the text stopRecording passes to onTranscript is the trimmed
\* concatenation, in arrival order, of the final segments received since
\* start() or the last clear().
C5_TranscriptDelivered ==
    [][StopRan(lastOp')
         => \A t \in Args("onTranscript", calls') : t = Trim(Joined(heard))]_vars

\* C6: a recognition error other than no-speech during a session ends the
\* session in Stopped with its resources torn down, and the final callback
\* receives all text finalized up to the error.
C6_ErrorKeepsText ==
    [][(lastOp' = "error" /\ isRecording)
         => /\ ~isRecording' /\ ~isPaused'
            /\ timerRef' # "active"
            /\ streamRef' # "live"
            /\ audioContextRef' # "running"
            /\ Trim(transcript) # EmptyText
                 => Args("onTranscript", calls') = {Trim(transcript)}]_vars

\* C7: an end event while the controller is Recording and not Paused
\* starts the engine again.
C7_RestartOnEnd ==
    [][(lastOp' = "end" /\ Recording /\ Recording')
         => NumberOf("recognition.start", calls') = 1]_vars


\* C8: while the state is Paused or Stopped no recognition instance is
\* listening, and no task that leaves the state Paused or Stopped (an end
\* event among them) starts one.
C8_HaltedWhilePausedOrStopped ==
    (Paused \/ Stopped)
      => /\ \A i \in InstIds : recs[i].status # "listening"
         /\ NumberOf("recognition.start", calls) = 0

\* an end event was delivered while Paused, and nothing listens
C8_Witness ==
    /\ Paused
    /\ lastOp = "end"
    /\ \A i \in InstIds : recs[i].status # "listening"

\* the interim texts of a batch, concatenated in order
InterimText(batch) ==
    LET G[k \in 0..Len(batch)] ==
            IF k = 0 THEN EmptyText
            ELSE IF batch[k].isFinal
                 THEN G[k - 1]
                 ELSE G[k - 1] \o batch[k].transcript
    IN  G[Len(batch)]

Final(w) == [transcript |-> <<w>>, isFinal |-> TRUE]
Interim(w) == [transcript |-> <<w>>, isFinal |-> FALSE]

\* final hello, interim wor, final world, from empty transcripts
ExampleResult ==
    LET s1 == ResultState(EmptyText, EmptyText, <<Final("hello")>>)
        s2 == ResultState(s1[1], s1[2], <<Interim("wor")>>)
    IN  ResultState(s2[1], s2[2], <<Final("world")>>)

\* C9: a batch with a final segment appends each final segment's text and
\* one blank to the transcript and empties the interim transcript; a batch
\* without one replaces the interim transcript by the batch's interim text
\* and leaves the transcript alone.  final hello, interim wor, final world
\* gives "hello world " and an empty interim transcript.
C9_ResultBatch ==
    /\ ExampleResult = <<<<"hello", Blank, "world", Blank>>, EmptyText>>
    /\ [][lastOp' = "result"
            => IF \E k \in 1..Len(lastBatch') : lastBatch'[k].isFinal
               THEN /\ transcript' =
                         transcript \o Joined(FinalSegments(lastBatch'))
                    /\ interimTranscript' = EmptyText
               ELSE /\ transcript' = transcript
                    /\ interimTranscript' = InterimText(lastBatch')]_vars

\* the example's end state, reached through an interim batch in between
C9_Witness ==
    /\ lastOp = "result"
    /\ heard = <<<<"hello">>, <<"world">>>>
    /\ transcript = <<"hello", Blank, "world", Blank>>
    /\ interimTranscript = EmptyText

\* C10: while the session stays Paused (and in every task that starts from
\* Paused or Stopped) no animation frame is requested for updateLevel and
\* audioLevel is written by nothing but stopRecording.
C10_NoSamplingWhilePaused ==
    [][(Paused \/ Stopped)
         => /\ NumberOf("requestAnimationFrame", calls') = 0
            /\ audioLevel' = audioLevel \/ StopRan(lastOp')]_vars

\* updateLevel was called while the session was Paused
C10_Witness ==
    /\ Paused
    /\ lastOp = "mic-granted"
    /\ audioLevel = 0


\* no task requests an animation frame: updateLevel returns at line 92
NoFrameRequested == NumberOf("requestAnimationFrame", calls) = 0

\* recognitionRef.current is never a started instance, so the start() calls
\* of lines 121 and 142 never throw
CurrentIsIdle == recognitionRef # 0 => recs[recognitionRef].status = "idle"

\* t begins with s
IsPrefix(s, t) == Len(s) <= Len(t) /\ SubSeq(t, 1, Len(s)) = s

C12_ClearOnlyText ==
    [][lastOp' = "clear"
         => /\ transcript' = EmptyText
            /\ interimTranscript' = EmptyText
            /\ calls' = << >>
            /\ UNCHANGED <<isRecording, isPaused, recordingTime, audioLevel,
                           timerRef, orphanTimers, streamRef, orphanStreams,
                           audioContextRef, orphanContexts, micRequests,
                           recognitionRef, recs>>]_vars

\* a clear while Recording, the timer running and an instance still started
C12_Witness ==
    /\ lastOp = "clear"
    /\ Recording
    /\ recordingTime = 1
    /\ timerRef = "active"
    /\ \E i \in InstIds : recs[i].status = "stopping"

\* C13: isPaused never holds without isRecording, and the two flags change
\* only by start (Idle/Stopped to Recording), pause (Recording to Paused),
\* resume (Paused to Recording) and stop or a fatal recognition error
\* (Recording/Paused to Stopped).
C13_StateMachine ==
    /\ [](isPaused => isRecording)
    /\ [][/\ <<isRecording, isPaused>>' # <<isRecording, isPaused>>
               => \/ lastOp' = "start" /\ Stopped /\ Recording'
                  \/ lastOp' = "pause" /\ Recording /\ Paused'
                  \/ lastOp' = "resume" /\ Paused /\ Recording'
                  \/ StopRan(lastOp') /\ isRecording /\ Stopped'
          /\ lastOp' = "pause" => Recording /\ Paused'
          /\ lastOp' = "resume" => Paused /\ Recording'
          /\ StopRan(lastOp') => Stopped']_vars

\* a fatal error has stopped a session whose timer had ticked
C13_Witness ==
    /\ lastOp = "error"
    /\ Stopped
    /\ recordingTime = 1
    /\ timerRef = "cleared"

\* C14: without speech recognition on the platform no session ever starts:
\* the flags stay false, no instance exists or is started, no microphone is
\* requested and no timer is created.
C14_UnsupportedNeverStarts ==
    ~supported
        => /\ Stopped
           /\ recognitionRef = 0
           /\ \A i \in InstIds : recs[i].status = "free"
           /\ micRequests = << >>
           /\ timerRef = "null" /\ ~orphanTimers
           /\ streamRef = "null" /\ audioContextRef = "null"
           /\ NumberOf("recognition.start", calls) = 0
           /\ NumberOf("getUserMedia", calls) = 0
           /\ NumberOf("setInterval", calls) = 0

\* startRecording has run without speech recognition
C14_Witness ==
    /\ ~supported
    /\ lastOp = "start"
    /\ calls = <<Call("alert", NoArg)>>

\* C15: a start that finds a recognition instance leaves the state
\* Recording with both transcripts empty and recordingTime 0, whatever the
\* earlier session left in them.
C15_StartResets ==
    [][lastOp' = "start" /\ supported
         => /\ Recording'
            /\ transcript' = EmptyText
            /\ interimTranscript' = EmptyText
            /\ recordingTime' = 0]_vars

\* a second start: an instance built after the earlier session's stop still
\* holds that session's text in its closure
C15_Witness ==
    /\ lastOp = "start"
    /\ Recording
    /\ transcript = EmptyText
    /\ recordingTime = 0
    /\ \E i \in InstIds : recs[i].cTranscript # EmptyText

\* C16: pauseRecording leaves the interval timer and recordingTime alone,
\* every tick adds one to recordingTime also while Paused, and the timer
\* stops being active only in a run of stopRecording.
C16_PauseKeepsTimer ==
    [][/\ lastOp' = "pause"
            => UNCHANGED <<timerRef, orphanTimers, recordingTime>>
       /\ lastOp' = "tick" => recordingTime' = recordingTime + 1
       /\ timerRef = "active" /\ timerRef' # "active" => StopRan(lastOp')]_vars

\* a tick while Paused
C16_Witness ==
    /\ lastOp = "tick"
    /\ Paused
    /\ timerRef = "active"
    /\ recordingTime = 1

\* C17: once stopRecording has ended a session and until the next start no
\* microphone track is live, no audio context runs and no interval timer
\* is active.
C17_ReleasedWhileStopped ==
    Stopped
        => /\ streamRef # "live" /\ ~orphanStreams
           /\ audioContextRef # "running" /\ ~orphanContexts
           /\ timerRef # "active" /\ ~orphanTimers

\* C18: a rejected getUserMedia is reported with an alert and changes
\* neither the flags nor the transcripts nor any recognition instance, and
\* the interval timer is started.
C18_DenialKeepsSession ==
    [][lastOp' = "mic-denied"
         => /\ NumberOf("alert", calls') = 1
            /\ NumberOf("setInterval", calls') = 1
            /\ timerRef' = "active"
            /\ NumberOf("recognition.stop", calls') = 0
            /\ UNCHANGED <<isRecording, isPaused, transcript,
                           interimTranscript, recordingTime, recognitionRef,
                           recs, transcriptCalls>>]_vars

\* the microphone was refused (the timer runs, no stream was ever set) and
\* a result has still been appended to the transcript of the session
C18_Witness ==
    /\ lastOp = "result"
    /\ Recording
    /\ streamRef = "null"
    /\ timerRef = "active"
    /\ transcript = <<"hello", Blank>>

\* C19: a no-speech error leaves the flags, both transcripts, the timer, the
\* audio resources and the refs as they were, makes no outward call (no
\* host callback, no recognition.stop), and changes no instance except that
\* the one that reported the error goes on to its end event.
C19_NoSpeechIgnored ==
    [][lastOp' = "error-no-speech"
         => /\ calls' = << >>
            /\ UNCHANGED <<isRecording, isPaused, transcript,
                           interimTranscript, audioLevel, recordingTime,
                           recognitionRef, timerRef, orphanTimers, streamRef,
                           orphanStreams, audioContextRef, orphanContexts,
                           micRequests, transcriptCalls>>
            /\ \E i \in InstIds :
                  recs' = [recs EXCEPT ![i].status = "ending"]]_vars

\* a no-speech error in a session that has text, a timer and a microphone
C19_Witness ==
    /\ lastOp = "error-no-speech"
    /\ isRecording
    /\ transcript # EmptyText
    /\ timerRef = "active"
    /\ streamRef = "live"

\* C20: while Recording, recognitionRef holds an instance that was started
\* and is listening.
C20_ListeningWhileRecording ==
    Recording
        => /\ recognitionRef # 0
           /\ recs[recognitionRef].status = "listening"

\* C21: a getUserMedia promise that settles while the session is stopped
\* changes no session field and starts nothing: no stream, no audio
\* context, no animation frame and no interval timer.
C21_LateSettleInert ==
    [][lastOp' \in {"mic-granted", "mic-denied"} /\ Stopped
         => /\ UNCHANGED <<isRecording, isPaused, audioLevel, recordingTime,
                           timerRef, orphanTimers, streamRef, orphanStreams,
                           audioContextRef, orphanContexts>>
            /\ NumberOf("setInterval", calls') = 0
            /\ NumberOf("requestAnimationFrame", calls') = 0]_vars

\* C22: while a session is recording and its getUserMedia promise has not
\* settled, the interval timer that startRecording creates is active.
C22_TimerWithoutMicrophone ==
    isRecording /\ micRequests # << >>
        => timerRef = "active" \/ orphanTimers

\* C23: a getUserMedia grant that arrives while Recording starts the
\* sampling loop: updateLevel asks for its next animation frame.
C23_SamplingWhileRecording ==
    [][lastOp' = "mic-granted" /\ Recording
         => NumberOf("requestAnimationFrame", calls') = 1]_vars

\* C24: a sampling tick leaves audioLevel = min(100, (mean / 255) * 150) for
\* the mean of the buffer's bytes (each in 0..255); the level lies in
\* [0, 100], is 0 for silence and is 100 from a mean of 170 on.  Levels are
\* in units of 1 / LevelUnit, which makes mean * 150 / 255 the integer
\* sum * 150.
C24_LevelFormula ==
    lastOp = "frame"
        => LET n == Len(dataArray)
               sum == SumOf(dataArray)
               unit == 255 * n
           IN  /\ \A k \in 1..n : dataArray[k] \in 0..255
               /\ audioLevel = IF sum * 150 <= 100 * unit
                               THEN sum * 150 ELSE 100 * unit
               /\ 0 <= audioLevel /\ audioLevel <= 100 * unit
               /\ sum = 0 => audioLevel = 0
               /\ sum >= 170 * n => audioLevel = 100 * unit
               /\ sum < 170 * n => audioLevel < 100 * unit

\* a tick whose mean is 170 with unequal bins: the level has just reached 100
C24_Witness ==
    /\ lastOp = "frame"
    /\ dataArray # ZeroData
    /\ SumOf(dataArray) = 170 * Len(dataArray)
    /\ \E k \in 1..Len(dataArray) : dataArray[k] = 171
    /\ audioLevel = 100 * LevelUnit(dataArray)

\* C25: audioLevel is 0 whenever the session is not Recording, that is in
\* Idle, Paused and Stopped.
C25_LevelZeroUnlessRecording ==
    ~Recording => audioLevel = 0

\* Paused with the microphone acquired: the state in which a level could
\* have been left over
C25_Witness ==
    /\ Paused
    /\ lastOp = "pause"
    /\ streamRef = "live"
    /\ audioContextRef = "running"
    /\ audioLevel = 0

\* C26: at no time are two interval timers active, the one timerRef holds
\* and another that was started before it.
C26_SingleTimer ==
    ~(timerRef = "active" /\ orphanTimers)

\* C27: once the host has removed VoiceInput during a session that was
\* never stopped, no microphone track is live, no audio context runs and
\* no interval timer is active.
C27_ReleasedOnRemoval ==
    ~showVoiceInput /\ isRecording
        => /\ streamRef # "live" /\ ~orphanStreams
           /\ audioContextRef # "running" /\ ~orphanContexts
           /\ timerRef # "active" /\ ~orphanTimers

\* C28: the timeout that handleVoiceSend set posts one message, and its
\* content is the transcript that stopRecording handed to onSend.
C28_PostsTranscript ==
    [][lastOp' = "send-timeout"
         => posted' = Append(posted, Head(sendTimers).sent)]_vars

====
